---- MODULE Spec2Model ----
(***************************************************************************)
(* Journal site generator: boilerplate normalizer (scripts/clean.js and    *)
(* the build's cleanJournalMarkdown), tokenizer, stopword filter, the      *)
(* statistics page's aggregation and trend ranking, and the sparkline      *)
(* renderer.  Text is modelled character by character: a string is a       *)
(* sequence of one-character strings, so that split, slice, join, replace, *)
(* trim and every regular expression are computed as the code computes     *)
(* them.                                                                   *)
(***************************************************************************)
EXTENDS Integers, Sequences, FiniteSets, TLC

VARIABLES
  file,       \* content of one entry file in entries/ (characters)
  runs,       \* number of runs of scripts/clean.js so far
  lastClean,  \* what the last clean run did to the file, or NoRun
  entry,      \* the entry loadEntries built from the file, or NoEntry
  tok,        \* what tokenizeForWordCount/wordsWithoutStopwords made of entry.markdown, or NoTok
  values,     \* the numeric series handed to renderSparkline
  geom,       \* the width and height handed to renderSparkline
  svg,        \* what renderSparkline returned, or NoSvg
  files,      \* the listing of entries/: file names with their contents
  entries,    \* what loadEntries returned for the statistics page
  stats,      \* the values statsPage computed, or NoStats
  shuffled,   \* the values statsPage computed from the entries in another order, or NoShuffle
  sync        \* the run of syncFromObsidian: its position, the steps it ran, the temp directory

entryVars == <<file, runs, lastClean, entry, tok>>

sparkVars == <<values, geom, svg>>

statsVars == <<files, entries, stats>>

orderVars == <<shuffled>>

syncVars == <<sync>>

vars == <<entryVars, sparkVars, statsVars, orderVars, syncVars>>

-----------------------------------------------------------------------------
(* Characters and strings *)

Chars(s) == [i \in 1..Len(s) |-> SubSeq(s, i, i)]

Range(f) == {f[i] : i \in DOMAIN f}

\* the array whose elements a formula f gives, each computed once
Array(f) == SubSeq(f, 1, Len(f))

SetMin(S) == CHOOSE x \in S : \A y \in S : x <= y

SetMax(S) == CHOOSE x \in S : \A y \in S : x >= y

UpperLetters == Chars("ABCDEFGHIJKLMNOPQRSTUVWXYZ")

LowerLetters == Chars("abcdefghijklmnopqrstuvwxyz")

Digits == Range(Chars("0123456789"))

UpperSet == Range(UpperLetters)

LowerSet == Range(LowerLetters)

\* String.prototype.toLowerCase on one ASCII character
toLowerCase(c) ==
  IF c \in UpperSet
    THEN LowerLetters[CHOOSE i \in 1..26 : UpperLetters[i] = c]
    ELSE c

\* the regular expression class \s
IsSpace(c) == c \in {" ", "\t", "\n", "\r"}

\* the regular expression class \w
IsWordChar(c) == c \in UpperSet \cup LowerSet \cup Digits \cup {"_"}

\* the regular expression assertion \b at position p (between l[p-1] and l[p])
WordBoundary(l, p) ==
  LET before == p - 1 >= 1 /\ p - 1 <= Len(l) /\ IsWordChar(l[p - 1])
      after  == p >= 1 /\ p <= Len(l) /\ IsWordChar(l[p])
  IN  before # after

\* greedy \s* from position p: the first position at or after p that holds no space
RECURSIVE SkipSpaces(_, _)
SkipSpaces(l, p) ==
  IF p <= Len(l) /\ IsSpace(l[p]) THEN SkipSpaces(l, p + 1) ELSE p

\* greedy #{0,6} from position p
RECURSIVE SkipHashes(_, _, _)
SkipHashes(l, p, left) ==
  IF left > 0 /\ p <= Len(l) /\ l[p] = "#" THEN SkipHashes(l, p + 1, left - 1) ELSE p

\* greedy \d* from position p
RECURSIVE SkipDigits(_, _)
SkipDigits(l, p) ==
  IF p <= Len(l) /\ l[p] \in Digits THEN SkipDigits(l, p + 1) ELSE p

\* a literal matched at position p under the i flag (lit is given in lower case)
LitAt(l, p, lit) ==
  /\ p >= 1
  /\ p + Len(lit) - 1 <= Len(l)
  /\ \A k \in 1..Len(lit) : toLowerCase(l[p + k - 1]) = lit[k]

\* the prefix ^\s*#{0,6}\s* shared by the anchored markers: where the words start
AfterHeadingPrefix(l) == SkipSpaces(l, SkipHashes(l, SkipSpaces(l, 1), 6))

-----------------------------------------------------------------------------
(* Line classes of the normalizer *)

\* /^\s*#{0,6}\s*Must Do'?s\b/i
isMustDos(l) ==
  LET c == AfterHeadingPrefix(l)
      d == c + 7
  IN  /\ LitAt(l, c, Chars("must do"))
      /\ \/ LitAt(l, d, Chars("'s")) /\ WordBoundary(l, d + 2)
         \/ LitAt(l, d, Chars("s")) /\ WordBoundary(l, d + 1)

\* /^\s*[-*+]\s+/
isBullet(l) ==
  LET a == SkipSpaces(l, 1)
  IN  a + 1 <= Len(l) /\ l[a] \in {"-", "*", "+"} /\ IsSpace(l[a + 1])

\* /^\s*\d+\.\s+/
isNumbered(l) ==
  LET a == SkipSpaces(l, 1)
      b == SkipDigits(l, a)
  IN  b > a /\ b + 1 <= Len(l) /\ l[b] = "." /\ IsSpace(l[b + 1])

\* /^\s*\[[ xX]\]\s+/
isCheckbox(l) ==
  LET a == SkipSpaces(l, 1)
  IN  /\ a + 3 <= Len(l)
      /\ l[a] = "[" /\ l[a + 1] \in {" ", "x", "X"} /\ l[a + 2] = "]"
      /\ IsSpace(l[a + 3])

\* /^\s*$/
isBlank(l) == SkipSpaces(l, 1) > Len(l)

\* the condition of the while loop that consumes the Must Do's list
isListOrBlank(l) == isBullet(l) \/ isNumbered(l) \/ isCheckbox(l) \/ isBlank(l)

\* /\[\[\s*link\s*to\s*\]\]/i
isWikiLinkTo(l) ==
  \E p \in 1..Len(l) :
    /\ LitAt(l, p, Chars("[["))
    /\ LET a == SkipSpaces(l, p + 2)
           b == SkipSpaces(l, a + 4)
           c == SkipSpaces(l, b + 2)
       IN  LitAt(l, a, Chars("link")) /\ LitAt(l, b, Chars("to")) /\ LitAt(l, c, Chars("]]"))

\* /^\s*#{0,6}\s*link\s*to\b/i
isLinkTo(l) ==
  LET a == AfterHeadingPrefix(l)
      b == SkipSpaces(l, a + 4)
  IN  LitAt(l, a, Chars("link")) /\ LitAt(l, b, Chars("to")) /\ WordBoundary(l, b + 2)

\* /^\s*#{0,6}\s*are\s*we\s*closer\b/i
isAreWeCloser(l) ==
  LET a == AfterHeadingPrefix(l)
      b == SkipSpaces(l, a + 3)
      c == SkipSpaces(l, b + 2)
  IN  /\ LitAt(l, a, Chars("are")) /\ LitAt(l, b, Chars("we"))
      /\ LitAt(l, c, Chars("closer")) /\ WordBoundary(l, c + 6)

\* /\b100\s*days\b/i
is100Days(l) ==
  \E p \in 1..Len(l) :
    /\ WordBoundary(l, p)
    /\ LitAt(l, p, Chars("100"))
    /\ LET q == SkipSpaces(l, p + 3)
       IN  LitAt(l, q, Chars("days")) /\ WordBoundary(l, q + 4)

\* the condition of the footer scan
isFooter(l) == isWikiLinkTo(l) \/ isLinkTo(l) \/ isAreWeCloser(l) \/ is100Days(l)

-----------------------------------------------------------------------------
(* split, slice, join, replace, trim *)

\* the first position at or after p that holds character c, or 0 when there is none
IndexOf(s, c, p) ==
  LET found == {i \in p..Len(s) : s[i] = c}
  IN  IF found = {} THEN 0 ELSE SetMin(found)

\* String.prototype.split('\n')
RECURSIVE split(_)
split(s) ==
  LET i == IndexOf(s, "\n", 1)
  IN  IF i = 0
        THEN <<s>>
        ELSE <<SubSeq(s, 1, i - 1)>> \o split(SubSeq(s, i + 1, Len(s)))

\* Array.prototype.slice(from, to) with 0-based indices, from <= to <= length
slice(a, from, to) == SubSeq(a, from + 1, to)

\* Array.prototype.join('\n')
RECURSIVE join(_)
join(a) ==
  IF a = <<>> THEN <<>>
  ELSE IF Len(a) = 1 THEN a[1]
  ELSE a[1] \o <<"\n">> \o join(Tail(a))

\* the length of the run of '\n' that starts at position p
RECURSIVE NewlineRun(_, _)
NewlineRun(s, p) ==
  IF p <= Len(s) /\ s[p] = "\n" THEN 1 + NewlineRun(s, p + 1) ELSE 0

\* .replace(/\n{3,}/g, '\n\n') from position p on: the leftmost run of three or
\* more is replaced whole, and the scan goes on after it
RECURSIVE collapseNewlines(_, _)
collapseNewlines(s, p) ==
  LET starts == {q \in p..Len(s) : NewlineRun(s, q) >= 3}
  IN  IF starts = {} THEN SubSeq(s, p, Len(s))
      ELSE LET q == SetMin(starts)
           IN  SubSeq(s, p, q - 1) \o <<"\n", "\n">>
                 \o collapseNewlines(s, q + NewlineRun(s, q))

\* the last position at or before p that holds no space, or 0
RECURSIVE LastNonSpace(_, _)
LastNonSpace(s, p) ==
  IF p >= 1 /\ IsSpace(s[p]) THEN LastNonSpace(s, p - 1) ELSE p

\* String.prototype.trim
trim(s) ==
  LET a == SkipSpaces(s, 1)
      b == LastNonSpace(s, Len(s))
  IN  IF a > Len(s) THEN <<>> ELSE SubSeq(s, a, b)

-----------------------------------------------------------------------------
(* Boilerplate normalizer of the build: cleanJournalMarkdown *)

\* the inner while loop: j advances over list items and blank lines
RECURSIVE journalSkipList(_, _)
journalSkipList(lines, j) ==
  IF j < Len(lines) /\ isListOrBlank(lines[j + 1])
    THEN journalSkipList(lines, j + 1)
    ELSE j

\* mutant of journalStartIdx: the list after the marker is not consumed
journalStartIdx_NoSkip(lines) ==
  LET marked == {i \in 0..(Len(lines) - 1) : isMustDos(lines[i + 1])}
  IN  IF marked = {} THEN 0 ELSE SetMin(marked) + 1

\* step 1: startIdx (0-based), the line after the first Must Do's block
journalStartIdx(lines) ==
  LET marked == {i \in 0..(Len(lines) - 1) : isMustDos(lines[i + 1])}
  IN  IF marked = {} THEN 0 ELSE journalSkipList(lines, SetMin(marked) + 1)

\* mutant of journalEndIdx: the footer scan starts at line 0, not at startIdx
journalEndIdx_FromTop(lines, startIdx) ==
  LET found == {i \in 0..(Len(lines) - 1) : isFooter(lines[i + 1])}
  IN  IF found = {} THEN Len(lines) ELSE SetMin(found)

\* step 2: endIdx (0-based), the first footer line at or after startIdx
journalEndIdx(lines, startIdx) ==
  LET found == {i \in startIdx..(Len(lines) - 1) : isFooter(lines[i + 1])}
  IN  IF found = {} THEN Len(lines) ELSE SetMin(found)

\* lines.slice(startIdx, endIdx).join('\n'), with endIdx found from startIdx on
journalRegion(lines, startIdx) ==
  join(slice(lines, startIdx, journalEndIdx(lines, startIdx)))

\* return cleaned ? cleaned + '\n' : ''
journalResult(cleaned) == IF cleaned # <<>> THEN cleaned \o <<"\n">> ELSE <<>>

journalClean(lines) ==
  journalResult(trim(collapseNewlines(journalRegion(lines, journalStartIdx(lines)), 1)))

cleanJournalMarkdown(text) == journalClean(split(text))

-----------------------------------------------------------------------------
(* Boilerplate normalizer of scripts/clean.js: cleanTopAndBottom *)

RECURSIVE cleanSkipList(_, _)
cleanSkipList(lines, j) ==
  IF j < Len(lines) /\ isListOrBlank(lines[j + 1])
    THEN cleanSkipList(lines, j + 1)
    ELSE j

cleanStartIdx(lines) ==
  LET marked == {i \in 0..(Len(lines) - 1) : isMustDos(lines[i + 1])}
  IN  IF marked = {} THEN 0 ELSE cleanSkipList(lines, SetMin(marked) + 1)

cleanEndIdx(lines, startIdx) ==
  LET found == {i \in startIdx..(Len(lines) - 1) : isFooter(lines[i + 1])}
  IN  IF found = {} THEN Len(lines) ELSE SetMin(found)

cleanTopAndBottom(markdown) ==
  LET lines    == split(markdown)
      startIdx == cleanStartIdx(lines)
      endIdx   == cleanEndIdx(lines, startIdx)
      cleaned  == trim(collapseNewlines(join(slice(lines, startIdx, endIdx)), 1))
  IN  IF cleaned # <<>> THEN cleaned \o <<"\n">> ELSE <<>>

-----------------------------------------------------------------------------
(* Tokenizer and stopword filter *)

\* the code point U+2019 (right single quotation mark), one character of a text
RightQuote == "U+2019"

\* the code point U+0060 (grave accent, the backtick), one character of a text
Backtick == "U+0060"

\* where a match of regular expression re that starts at position p ends, or 0
\* (BT stands for the backtick):
\*   fence  /BT BT BT [\s\S]*? BT BT BT/     code  /BT [^BT]* BT/
\*   image  /!\[[^\]]*\]\([^\)]*\)/          link  /\[[^\]]*\]\([^\)]*\)/
FenceClose(s, q) ==
  LET closes == {r \in q..(Len(s) - 2) :
                   s[r] = Backtick /\ s[r + 1] = Backtick /\ s[r + 2] = Backtick}
  IN  IF closes = {} THEN 0 ELSE SetMin(closes) + 2

LinkEnd(s, p) ==
  IF p + 1 <= Len(s) /\ s[p] = "["
    THEN LET q == IndexOf(s, "]", p + 1)
         IN  IF q # 0 /\ q + 1 <= Len(s) /\ s[q + 1] = "("
               THEN IndexOf(s, ")", q + 2)
               ELSE 0
    ELSE 0

regexMatchEnd(re, s, p) ==
  CASE re = "fence" ->
         IF p + 2 <= Len(s) /\ s[p] = Backtick /\ s[p + 1] = Backtick /\ s[p + 2] = Backtick
           THEN FenceClose(s, p + 3) ELSE 0
    [] re = "code" ->
         IF s[p] = Backtick THEN IndexOf(s, Backtick, p + 1) ELSE 0
    [] re = "image" ->
         IF s[p] = "!" THEN LinkEnd(s, p + 1) ELSE 0
    [] re = "link" -> LinkEnd(s, p)

\* .replace(re, ' ') with the g flag: matches are found left to right, none overlapping
RECURSIVE replaceWithSpace(_, _, _)
replaceWithSpace(re, s, p) ==
  LET starts == {q \in p..Len(s) : regexMatchEnd(re, s, q) # 0}
  IN  IF starts = {} THEN SubSeq(s, p, Len(s))
      ELSE LET q == SetMin(starts)
           IN  SubSeq(s, p, q - 1) \o <<" ">>
                 \o replaceWithSpace(re, s, regexMatchEnd(re, s, q) + 1)

\* .replace(/[U+2019']/g, "'")
straightenQuotes(s) ==
  Array([i \in 1..Len(s) |-> IF s[i] \in {RightQuote, "'"} THEN "'" ELSE s[i]])

\* .replace(/[^a-zA-Z0-9\s']/g, ' ')
blankPunctuation(s) ==
  Array([i \in 1..Len(s) |->
           IF s[i] \in UpperSet \cup LowerSet \cup Digits \/ IsSpace(s[i]) \/ s[i] = "'"
             THEN s[i] ELSE " "])

\* .toLowerCase()
lowerCase(s) == Array([i \in 1..Len(s) |-> toLowerCase(s[i])])

\* the first position at or after p that holds a space, or Len(s) + 1
RECURSIVE SkipWord(_, _)
SkipWord(s, p) ==
  IF p <= Len(s) /\ ~IsSpace(s[p]) THEN SkipWord(s, p + 1) ELSE p

\* the elements of a finite set of integers in ascending order
Ascending(S) ==
  Array([k \in 1..Cardinality(S) |-> CHOOSE a \in S : Cardinality({b \in S : b <= a}) = k])

\* .split(/\s+/).filter(Boolean): the maximal runs of non-space characters,
\* from left to right
wordsAt(s, starts) ==
  Array([k \in 1..Len(starts) |-> SubSeq(s, starts[k], SkipWord(s, starts[k]) - 1)])

splitWords(s) ==
  wordsAt(s, Ascending({a \in 1..Len(s) : ~IsSpace(s[a]) /\ (a = 1 \/ IsSpace(s[a - 1]))}))

tokenizeForWordCount(text) ==
  LET t0 == cleanJournalMarkdown(text)
      t1 == replaceWithSpace("fence", t0, 1)
      t2 == replaceWithSpace("code", t1, 1)
      t3 == replaceWithSpace("image", t2, 1)
      t4 == replaceWithSpace("link", t3, 1)
      cleaned == lowerCase(blankPunctuation(straightenQuotes(t4)))
  IN  splitWords(cleaned)

STOPWORDS ==
  {Chars(w) : w \in {
    "the","a","an","and","or","but","if","then","else","when","at","by","for","in",
    "of","on","to","up","with","is","it","as","be","can","did","do","does","doing",
    "done","from","had","has","have","i","me","my","we","our","you","your","he","she",
    "they","them","their","this","that","these","those","so","not","no","yes","just",
    "than","too","very","are","was","were","will","would","could","should","about",
    "after","again","against","all","am","any","because","been","before","being",
    "between","both","into","over","under","out","off","only","own","same","some",
    "such","own","what","which","who","whom","why","how","there","here","where","also"}}

\* mutant of isCountedWord: the length test is w.length >= 1
isCountedWord_AnyLength(w) == Len(w) >= 1 /\ w \notin STOPWORDS

\* w => w.length > 1 && !STOPWORDS.has(w)
isCountedWord(w) == Len(w) > 1 /\ w \notin STOPWORDS

\* tokens.filter(w => w.length > 1 && !STOPWORDS.has(w))
wordsWithoutStopwords(tokens) == SelectSeq(tokens, isCountedWord)

-----------------------------------------------------------------------------
(* Sparkline renderer.  A coordinate is an exact fraction [num, den]; the   *)
(* path holds it as toFixed(2) prints it, in hundredths.                    *)

pad == 6

SeqSum(a) == LET S[i \in 0..Len(a)] == IF i = 0 THEN 0 ELSE S[i - 1] + a[i] IN S[Len(a)]

SeqMax(a) == SetMax(Range(a))

SeqMin(a) == SetMin(Range(a))

\* const range = max === min ? 1 : (max - min)
sparkRange(max, min) == IF max = min THEN 1 ELSE max - min

\* mutant of sparkX: the step divides by n, not by n - 1
sparkX_OverN(i, n, W) ==
  [num |-> pad * n + i * (W - 2 * pad), den |-> n]

\* const x = pad + (i * (W - 2 * pad)) / Math.max(1, n - 1), i 0-based
sparkX(i, n, W) ==
  LET den == IF n - 1 > 1 THEN n - 1 ELSE 1
  IN  [num |-> pad * den + i * (W - 2 * pad), den |-> den]

\* mutant of sparkY: the axis is not flipped, larger values are drawn lower
sparkY_Inverted(v, min, range, H) ==
  [num |-> pad * range + (v - min) * (H - 2 * pad), den |-> range]

\* const y = H - pad - ((v - min) * (H - 2 * pad)) / range
sparkY(v, min, range, H) ==
  [num |-> (H - pad) * range - (v - min) * (H - 2 * pad), den |-> range]

\* Number.prototype.toFixed(2) of a non-negative fraction, in hundredths:
\* the nearest hundredth, the larger one on a tie
toFixed2(q) == (200 * q.num + q.den) \div (2 * q.den)

NoSvg == [done |-> FALSE, empty |-> FALSE, range |-> 0, points |-> <<>>, d |-> <<>>]

renderSparkline(vals, W, H) ==
  LET n == Len(vals)
  IN  IF n = 0
        THEN [done |-> TRUE, empty |-> TRUE, range |-> 0, points |-> <<>>, d |-> <<>>]
        ELSE LET max == SeqMax(vals)
                 min == SeqMin(vals)
                 range == sparkRange(max, min)
                 points == [k \in 1..n |->
                              [x |-> sparkX(k - 1, n, W), y |-> sparkY(vals[k], min, range, H)]]
                 d == [k \in 1..n |->
                         [op |-> IF k = 1 THEN "M" ELSE "L",
                          x |-> toFixed2(points[k].x), y |-> toFixed2(points[k].y)]]
             IN  [done |-> TRUE, empty |-> FALSE, range |-> range, points |-> points, d |-> d]

MaxN == 4     \* points of a sample series

MaxVal == 3   \* largest value of a sample series

\* the geometries renderSparkline is called with (and its defaults)
Geometries ==
  { [width |-> 1000, height |-> 160], [width |-> 1000, height |-> 120],
    [width |-> 400, height |-> 60], [width |-> 300, height |-> 50],
    [width |-> 280, height |-> 60] }

RenderSparkline ==
  /\ ~svg.done
  /\ svg' = renderSparkline(values, geom.width, geom.height)
  /\ UNCHANGED <<values, geom, entryVars, statsVars, orderVars, syncVars>>

NextSpark == RenderSparkline

-----------------------------------------------------------------------------
(* One entry file through the clean script and the build *)

MaxRuns == 2    \* runs of scripts/clean.js per behaviour

MaxLines == 3   \* lines of a sample entry file

MaxWords == 3   \* words of a sample entry text of the tokenizer family

NoRun == [ran |-> FALSE, orig |-> <<>>, startIdx |-> 0, endIdx |-> 0, cleaned |-> <<>>, changed |-> 0]

NoEntry == [loaded |-> FALSE, raw |-> <<>>, startIdx |-> 0, endIdx |-> 0, markdown |-> <<>>]

NoTok == [done |-> FALSE, normalized |-> <<>>, tokens |-> <<>>, filtered |-> <<>>]

\* lines an entry file is made of: marker, list item, blank, body, two footers
SampleLines ==
  << Chars("## Must Do's"), Chars("- [ ] task"), <<>>, Chars("Body text here."),
     Chars("[[link to]]"), Chars("100 days left") >>

MarkerVariants ==
  { Chars("Must Dos"), Chars("  ### MUST DO'S:"), Chars("Must Do'sx"),
    Chars("####### Must Do's") }

ListVariants ==
  { Chars("* a"), Chars("12. one"), Chars("[x] done"), Chars(" \t"),
    Chars("-nospace"), Chars("[y] no") }

FooterVariants ==
  { Chars("## Link to"), Chars("linkto"), Chars("Are  we closer?"),
    Chars("see [[ Link To ]] here"), Chars("on day 100days."), Chars("x100 days"),
    Chars("link tomorrow") }

\* every text of 1..MaxLines sample lines, and intro/marker/list/blank/body/
\* footer/tail texts that take each regular expression through a match and a
\* near miss
NormFiles ==
  UNION { { join([i \in 1..n |-> SampleLines[f[i]]]) : f \in [1..n -> 1..Len(SampleLines)] }
          : n \in 1..MaxLines }
  \cup { join(<<Chars("intro"), m, l, <<>>, Chars("Body."), f, Chars("tail")>>) :
           m \in MarkerVariants, l \in ListVariants, f \in FooterVariants }
  \cup { Chars("## Must Do's\n- [ ] task\n\nBody text here.\n\n[[link to]]\nfooter junk"),
         Chars("100 days ago\n## Must Do's\n- [ ] task\n\nBody.\n## Link to\ntail"),
         Chars("Must Do's\n- finish 100 days\n1. two\nBody one.\n\n\n\nBody two.\nAre we closer\nx"),
         Chars("Must Do's of 100 days\n\n  Body.  \n\n\n\n"),
         Chars("Notes\nMust Do's\n- a\nMiddle.\nMust Do's\n- b\nEnd.") }

\* words of the tokenizer family, in the case and punctuation of a source text
SampleWords ==
  << Chars("The,"), Chars("I"), Chars("run"), Chars("RUN!"), Chars("x"),
     Chars("(also)"), Chars("don") \o <<RightQuote>> \o Chars("t"), Chars("42") >>

RECURSIVE joinWith(_, _)
joinWith(a, sep) ==
  IF a = <<>> THEN <<>>
  ELSE IF Len(a) = 1 THEN a[1]
  ELSE a[1] \o sep \o joinWith(Tail(a), sep)

\* every text of 1..MaxWords sample words, and texts with inline code, a
\* fenced block, a link, an image and quoted words
TokenFiles ==
  UNION { { joinWith([i \in 1..n |-> SampleWords[f[i]]], <<" ">>) :
              f \in [1..n -> 1..Len(SampleWords)] } : n \in 1..MaxWords }
  \cup { Chars("go ") \o <<Backtick>> \o Chars("the code") \o <<Backtick>> \o Chars(" on"),
         <<Backtick, Backtick, Backtick>> \o Chars("\nthe code\n")
            \o <<Backtick, Backtick, Backtick>> \o Chars("\nafter it"),
         Chars("see [The Link](http://x.y/the) now"),
         Chars("pic ![the alt](p.png) shown"),
         Chars("'the' and 'run' e-mail"),
         Chars("[not a link] (the) x") }

\* scripts/clean.js, run() on the file: rewrite it when cleaning changes it
CleanRun ==
  /\ runs < MaxRuns
  /\ LET orig    == file
         lines   == split(orig)
         cleaned == cleanTopAndBottom(orig)
     IN  /\ file' = IF cleaned # orig THEN cleaned ELSE file
         /\ lastClean' = [ran |-> TRUE, orig |-> orig,
                          startIdx |-> cleanStartIdx(lines),
                          endIdx |-> cleanEndIdx(lines, cleanStartIdx(lines)),
                          cleaned |-> cleaned,
                          changed |-> IF cleaned # orig THEN 1 ELSE 0]
  /\ runs' = runs + 1
  /\ UNCHANGED <<entry, tok, sparkVars, statsVars, orderVars, syncVars>>

\* the build, loadEntries() on the file: the entry keeps the normalized markdown
LoadEntry ==
  /\ ~entry.loaded
  /\ LET lines == split(file)
     IN  entry' = [loaded |-> TRUE, raw |-> file,
                   startIdx |-> journalStartIdx(lines),
                   endIdx |-> journalEndIdx(lines, journalStartIdx(lines)),
                   markdown |-> cleanJournalMarkdown(file)]
  /\ UNCHANGED <<file, runs, lastClean, tok, sparkVars, statsVars, orderVars, syncVars>>

\* the build, statsPage(): wordsWithoutStopwords(tokenizeForWordCount(e.markdown))
Tokenize ==
  /\ entry.loaded
  /\ ~tok.done
  /\ LET tokens == tokenizeForWordCount(entry.markdown)
     IN  tok' = [done |-> TRUE,
                 normalized |-> cleanJournalMarkdown(entry.markdown),
                 tokens |-> tokens,
                 filtered |-> wordsWithoutStopwords(tokens)]
  /\ UNCHANGED <<file, runs, lastClean, entry, sparkVars, statsVars, orderVars, syncVars>>

NextEntry == CleanRun \/ LoadEntry \/ Tokenize

EntryStart ==
  /\ runs = 0
  /\ lastClean = NoRun
  /\ entry = NoEntry
  /\ tok = NoTok

EntryIdle == file = <<>> /\ EntryStart

SparkIdle == values = <<>> /\ geom = [width |-> 280, height |-> 60] /\ svg = NoSvg


-----------------------------------------------------------------------------
(* Arrays and Maps of the statistics page *)

\* Array.prototype.sort(cmp), a stable sort: x comes before y when cmp(x, y) < 0,
\* and elements that compare equal keep their order
sortRank(a, cmp(_, _)) ==
  Array([i \in 1..Len(a) |->
           Cardinality({j \in 1..Len(a) : \/ cmp(a[j], a[i]) < 0
                                          \/ cmp(a[j], a[i]) = 0 /\ j < i}) + 1])

sortByRank(a, rank) == Array([p \in 1..Len(a) |-> a[CHOOSE i \in 1..Len(a) : rank[i] = p]])

sort(a, cmp(_, _)) == sortByRank(a, sortRank(a, cmp))

\* Array.prototype.slice(0, n) of an array of any length
sliceTo(a, n) == slice(a, 0, IF n <= Len(a) THEN n ELSE Len(a))

\* a Map: its keys in insertion order, and the value of each key
EmptyMap == [keys |-> <<>>, val |-> [k \in {} |-> 0]]

has(m, k) == k \in DOMAIN m.val

\* (map.get(k) || 0)
getOr0(m, k) == IF has(m, k) THEN m.val[k] ELSE 0

\* map.set(k, v)
set(m, k, v) ==
  IF has(m, k) THEN [m EXCEPT !.val[k] = v]
  ELSE [keys |-> Append(m.keys, k), val |-> m.val @@ (k :> v)]

\* Array.from(map.entries()): the [key, value] pairs in insertion order
mapEntries(m) == Array([i \in 1..Len(m.keys) |-> <<m.keys[i], m.val[m.keys[i]]>>])

-----------------------------------------------------------------------------
(* Entry files, dates and month keys *)

DigitChars == Chars("0123456789")

DigitValue(c) == CHOOSE v \in 0..9 : DigitChars[v + 1] = c

\* Number(s) of a string of decimal digits
RECURSIVE Number(_)
Number(ds) ==
  IF ds = <<>> THEN 0
  ELSE 10 * Number(SubSeq(ds, 1, Len(ds) - 1)) + DigitValue(ds[Len(ds)])

\* String(n) of a natural number
RECURSIVE String(_)
String(n) ==
  IF n < 10 THEN <<DigitChars[n + 1]>>
  ELSE String(n \div 10) \o <<DigitChars[(n % 10) + 1]>>

\* .padStart(2, '0')
padStart2(ds) == IF Len(ds) < 2 THEN <<"0">> \o ds ELSE ds

\* /^(\d{4})-(\d{2})-(\d{2})\.md$/.test(filename)
isValidEntryFilename(name) ==
  /\ Len(name) = 13
  /\ \A i \in {1, 2, 3, 4, 6, 7, 9, 10} : name[i] \in Digits
  /\ name[5] = "-" /\ name[8] = "-"
  /\ SubSeq(name, 11, 13) = Chars(".md")

\* the time value of new Date(y, mo - 1, d) up to a monotone rescaling: dates
\* of the calendar compare as (y, mo, d) do
dateValue(y, mo, d) == (y * 12 + (mo - 1)) * 31 + d

parseDateFromFilename(name) ==
  LET y  == Number(SubSeq(name, 1, 4))
      mo == Number(SubSeq(name, 6, 7))
      d  == Number(SubSeq(name, 9, 10))
  IN  [year |-> y, month |-> mo, day |-> d, date |-> dateValue(y, mo, d),
       slug |-> SubSeq(name, 1, 10)]

sortByDateAsc(a, b) == a.meta.date - b.meta.date

\* loadEntries: the files whose names are valid, each read and normalized, in
\* date order
hasValidName(f) == isValidEntryFilename(f.name)

\* the loop of loadEntries over mdFiles
readEntries(mdFiles) ==
  Array([i \in 1..Len(mdFiles) |->
           [meta |-> parseDateFromFilename(mdFiles[i].name),
            markdown |-> cleanJournalMarkdown(mdFiles[i].content)]])

loadEntries(fs) == sort(readEntries(SelectSeq(fs, hasValidName)), sortByDateAsc)

\* the template `${e.meta.year}-${String(e.meta.month).padStart(2,'0')}`
monthKey(e) == String(e.meta.year) \o <<"-">> \o padStart2(String(e.meta.month))

CharRank(c) == CHOOSE r \in 1..11 : Chars("-0123456789")[r] = c

\* a.localeCompare(b) on month keys (digits and hyphens)
RECURSIVE localeCompare(_, _)
localeCompare(a, b) ==
  IF a = <<>> /\ b = <<>> THEN 0
  ELSE IF a = <<>> THEN -1
  ELSE IF b = <<>> THEN 1
  ELSE IF a[1] = b[1] THEN localeCompare(Tail(a), Tail(b))
  ELSE IF CharRank(a[1]) < CharRank(b[1]) THEN -1 ELSE 1

\* wordsWithoutStopwords(tokenizeForWordCount(e.markdown))
tokensOf(e) == wordsWithoutStopwords(tokenizeForWordCount(e.markdown))

-----------------------------------------------------------------------------
(* Aggregator *)

getWordCountsPerEntry(es) ==
  Array([i \in 1..Len(es) |->
     [slug |-> es[i].meta.slug, year |-> es[i].meta.year, count |-> Len(tokensOf(es[i]))]])

\* A loop over an array is a recursion on the state of the loop: the index i of
\* the next element and the Maps built so far.

\* for (const it of items) map.set(it.year, (map.get(it.year) || 0) + it.count)
RECURSIVE sumByYear(_, _)
sumByYear(items, st) ==
  IF st.i > Len(items) THEN st.map
  ELSE LET it == items[st.i]
       IN  sumByYear(items, [i |-> st.i + 1,
                             map |-> set(st.map, it.year, getOr0(st.map, it.year) + it.count)])

\* mutant of cmpFirstAsc: the years are left in the order of the Map
cmpFirstAsc_Unsorted(a, b) == 0

cmpFirstAsc(a, b) == a[1] - b[1]

aggregateCountsByYear(items) ==
  LET sorted == sort(mapEntries(sumByYear(items, [i |-> 1, map |-> EmptyMap])), cmpFirstAsc)
  IN  [i \in 1..Len(sorted) |-> [year |-> sorted[i][1], total |-> sorted[i][2]]]

\* the inner loop of buildWordFrequency over the tokens of one entry of year y
RECURSIVE countWords(_, _, _)
countWords(tokens, y, st) ==
  IF st.i > Len(tokens) THEN [overall |-> st.overall, perYear |-> st.perYear]
  ELSE LET w  == tokens[st.i]
           \* if (!perYear.has(y)) perYear.set(y, new Map())
           py == IF has(st.perYear, y) THEN st.perYear ELSE set(st.perYear, y, EmptyMap)
           ym == py.val[y]
       IN  countWords(tokens, y,
                      [i |-> st.i + 1,
                       overall |-> set(st.overall, w, getOr0(st.overall, w) + 1),
                       perYear |-> set(py, y, set(ym, w, getOr0(ym, w) + 1))])

RECURSIVE wordFrequency(_, _)
wordFrequency(es, st) ==
  IF st.i > Len(es) THEN st.acc
  ELSE wordFrequency(es,
         [i |-> st.i + 1,
          acc |-> countWords(tokensOf(es[st.i]), es[st.i].meta.year,
                             [i |-> 1, overall |-> st.acc.overall, perYear |-> st.acc.perYear])])

buildWordFrequency(es) ==
  wordFrequency(es, [i |-> 1, acc |-> [overall |-> EmptyMap, perYear |-> EmptyMap]])

\* perMonthMap of statsPage
RECURSIVE sumByMonth(_, _)
sumByMonth(es, st) ==
  IF st.i > Len(es) THEN st.map
  ELSE LET ym == monthKey(es[st.i])
       IN  sumByMonth(es, [i |-> st.i + 1,
                           map |-> set(st.map, ym, getOr0(st.map, ym) + Len(tokensOf(es[st.i])))])

\* mutant of cmpKeyLocale: the month keys in descending order
cmpKeyLocale_Desc(a, b) == localeCompare(b[1], a[1])

cmpKeyLocale(a, b) == localeCompare(a[1], b[1])

\* new Set(entries.map(monthKey)): the distinct keys in first-seen order
RECURSIVE distinctMonthKeys(_, _)
distinctMonthKeys(es, st) ==
  IF st.i > Len(es) THEN st.seen
  ELSE LET ym == monthKey(es[st.i])
       IN  distinctMonthKeys(es,
             [i |-> st.i + 1,
              seen |-> IF \E k \in 1..Len(st.seen) : st.seen[k] = ym
                         THEN st.seen ELSE Append(st.seen, ym)])

monthlyOrderOf(es) == sort(distinctMonthKeys(es, [i |-> 1, seen |-> <<>>]), localeCompare)

\* mutant of monthIndexGet: every month key is given index 0
monthIndexGet_First(monthlyOrder, ym) == 0

\* monthIndex.get(ym), 0-based
monthIndexGet(monthlyOrder, ym) == (CHOOSE i \in 1..Len(monthlyOrder) : monthlyOrder[i] = ym) - 1

\* the inner loop that fills perWordMonthCounts from the tokens of one entry
RECURSIVE countWordsOfMonth(_, _, _, _)
countWordsOfMonth(tokens, idx, nMonths, st) ==
  IF st.i > Len(tokens) THEN st.map
  ELSE LET w   == tokens[st.i]
           \* if (!perWordMonthCounts.has(w)) perWordMonthCounts.set(w, new Array(n).fill(0))
           m1  == IF has(st.map, w) THEN st.map ELSE set(st.map, w, [k \in 1..nMonths |-> 0])
           arr == m1.val[w]
       IN  countWordsOfMonth(tokens, idx, nMonths,
                             [i |-> st.i + 1,
                              map |-> set(m1, w, [arr EXCEPT ![idx + 1] = @ + 1])])

RECURSIVE wordMonthCounts(_, _, _)
wordMonthCounts(es, monthlyOrder, st) ==
  IF st.i > Len(es) THEN st.map
  ELSE wordMonthCounts(es, monthlyOrder,
         [i |-> st.i + 1,
          map |-> countWordsOfMonth(tokensOf(es[st.i]),
                                    monthIndexGet(monthlyOrder, monthKey(es[st.i])),
                                    Len(monthlyOrder), [i |-> 1, map |-> st.map])])

perWordMonthCountsOf(es, monthlyOrder) ==
  wordMonthCounts(es, monthlyOrder, [i |-> 1, map |-> EmptyMap])

-----------------------------------------------------------------------------
(* Trend ranker *)

\* the threshold of the filter arr.reduce((a,b)=>a+b,0) >= 10
MinOccurrences == 10

\* the length of hottest is at most that of .slice(0, 50)
HottestCap == 50

SumOfSquares(a) ==
  LET S[i \in 0..Len(a)] == IF i = 0 THEN 0 ELSE S[i - 1] + a[i] * a[i] IN S[Len(a)]

\* variance(arr) times the square of arr.length, which is exact in integers;
\* all compared series have the same length, so comparing these compares the
\* variances
varianceScaled(arr) ==
  IF Len(arr) = 0 THEN 0 ELSE Len(arr) * SumOfSquares(arr) - SeqSum(arr) * SeqSum(arr)

cmpVarianceDesc(a, b) == varianceScaled(b[2]) - varianceScaled(a[2])

\* ([w, arr]) => arr.reduce((a,b)=>a+b,0) >= 10
isGte10(pair) == SeqSum(pair[2]) >= MinOccurrences

\* .map(([w, arr]) => [w, arr.slice(1)]): drop first month for normalization
dropFirstMonth(kept) ==
  Array([i \in 1..Len(kept) |-> <<kept[i][1], slice(kept[i][2], 1, Len(kept[i][2]))>>])

\* wordsGte10: the words of at least 10 occurrences, each with its series
\* without the first month, the most varying first
wordsGte10Of(matrix) ==
  sort(dropFirstMonth(SelectSeq(mapEntries(matrix), isGte10)), cmpVarianceDesc)

Max2(a, b) == IF a >= b THEN a ELSE b

Min2(a, b) == IF a <= b THEN a ELSE b

\* const windowN = Math.min(3, Math.max(1, monthlyOrder.length >> 3) || 3)
windowNOf(monthCount) ==
  LET a == Max2(1, monthCount \div 8)
  IN  Min2(3, IF a # 0 THEN a ELSE 3)

\* const havePrev = (end - prevStart) >= 2 * windowN
havePrevOf(monthCount, windowN) ==
  LET end       == monthCount
      prevStart == Max2(0, end - 2 * windowN)
  IN  (end - prevStart) >= 2 * windowN

\* series.slice(Math.max(0, series.length - windowN)).reduce(...)
hotRecent(series, windowN) ==
  SeqSum(slice(series, Max2(0, Len(series) - windowN), Len(series)))

\* mutant of hotPrev: the previous window ends where the series ends
hotPrev_Overlap(series, windowN, havePrev) ==
  IF havePrev
    THEN SeqSum(slice(series, Max2(0, Len(series) - 2 * windowN), Len(series)))
    ELSE 0

\* havePrev ? series.slice(max(0, length - 2*windowN), max(0, length - windowN)).reduce(...) : 0
hotPrev(series, windowN, havePrev) ==
  IF havePrev
    THEN SeqSum(slice(series, Max2(0, Len(series) - 2 * windowN),
                              Max2(0, Len(series) - windowN)))
    ELSE 0

\* .map(([word, series]) => ({ word, recent, prev, delta, series }))
scoreWords(words, windowN, havePrev) ==
  Array([i \in 1..Len(words) |->
     LET series == words[i][2]
         recent == hotRecent(series, windowN)
         prev   == hotPrev(series, windowN, havePrev)
     IN  [word |-> words[i][1], recent |-> recent, prev |-> prev,
          delta |-> recent - prev, series |-> series]])

\* x => x.delta > 0
isRising(x) == x.delta > 0

cmpDeltaDesc(a, b) == b.delta - a.delta

\* .filter(x => x.delta > 0).sort((a,b) => b.delta - a.delta).slice(0, 50)
hottestOf(scored) == sliceTo(sort(SelectSeq(scored, isRising), cmpDeltaDesc), HottestCap)

-----------------------------------------------------------------------------
(* statsPage *)

\* mutant of isNumeric: no token is taken for a number
isNumeric_Never(t) == FALSE

\* /^[0-9]+$/.test(t)
isNumeric(t) == Len(t) >= 1 /\ \A k \in 1..Len(t) : t[k] \in Digits

NoStats ==
  [done |-> FALSE, totalWords |-> 0, totalUniqueWords |-> 0, byYear |-> <<>>,
   overall |-> EmptyMap, perYear |-> EmptyMap, perMonth |-> <<>>,
   monthlyOrder |-> <<>>, perWordMonthCounts |-> EmptyMap, wordsGte10 |-> <<>>,
   windowN |-> 0, havePrev |-> FALSE, scored |-> <<>>, hottest |-> <<>>]

\* statsPage computes its constants in stages, each from the ones before it

\* totalWords, totalUniqueWords, byYear, overall, perYear, perMonth
pageCounts(es, wordCounts, freq) ==
  [NoStats EXCEPT
     !.done = TRUE,
     !.totalWords = SeqSum([i \in 1..Len(wordCounts) |-> wordCounts[i].count]),
     !.totalUniqueWords =
        Cardinality(UNION { {t \in Range(tokensOf(es[i])) : ~isNumeric(t)} : i \in 1..Len(es) }),
     !.byYear = aggregateCountsByYear(wordCounts),
     !.overall = freq.overall,
     !.perYear = freq.perYear,
     !.perMonth = sort(mapEntries(sumByMonth(es, [i |-> 1, map |-> EmptyMap])), cmpKeyLocale)]

\* monthlyOrder, perWordMonthCounts
pageMonths(page, es, monthlyOrder) ==
  [page EXCEPT !.monthlyOrder = monthlyOrder,
               !.perWordMonthCounts = perWordMonthCountsOf(es, monthlyOrder)]

\* wordsGte10, windowN
pageTrends(page) ==
  [page EXCEPT !.wordsGte10 = wordsGte10Of(page.perWordMonthCounts),
               !.windowN = windowNOf(Len(page.monthlyOrder))]

\* havePrev and the mapped list of hottest
pageScores(page, havePrev) ==
  [page EXCEPT !.havePrev = havePrev,
               !.scored = scoreWords(page.wordsGte10, page.windowN, havePrev)]

\* hottest
pageHottest(page) == [page EXCEPT !.hottest = hottestOf(page.scored)]

pageWindows(page) ==
  pageHottest(pageScores(page, havePrevOf(Len(page.monthlyOrder), page.windowN)))

statsPage(es) ==
  pageWindows(pageTrends(pageMonths(
    pageCounts(es, getWordCountsPerEntry(es), buildWordFrequency(es)), es, monthlyOrderOf(es))))

-----------------------------------------------------------------------------
(* The statistics page over a directory of entry files *)

MaxMonths == 25

MaxSeed == 2

NWide == 52

\* word w written n times
RECURSIVE repeat(_, _)
repeat(w, n) == IF n <= 0 THEN <<>> ELSE w \o <<" ">> \o repeat(w, n - 1)

yearOfMonth(k) == 2023 + (k - 1) \div 12

monthOfMonth(k) == ((k - 1) % 12) + 1

\* the file name of the entry of day d of month k, months counted from 2023-01
entryName(k, d) ==
  String(yearOfMonth(k)) \o <<"-">> \o padStart2(String(monthOfMonth(k)))
    \o <<"-">> \o padStart2(String(d)) \o Chars(".md")

\* the entry of the 5th of month k of a journal of M months: words whose counts
\* rise, fall or stay level over the months, stopwords, a number, and in some
\* months the boilerplate around them
mainContent(k, M, seed) ==
  LET header == IF k % 4 = 2 THEN Chars("## Must Do's\n- [ ] rain\n\n") ELSE <<>>
      footer == IF k % 5 = 0 THEN Chars("\n[[link to]]") ELSE <<>>
      body   == repeat(Chars("Go"), (k + seed) % 3)
                  \o repeat(Chars("tea,"), IF k > M - 2 THEN (k - (M - 2)) * (1 + seed) + 1 ELSE 1)
                  \o repeat(Chars("sun"), IF k <= 2 THEN 3 ELSE k % 2)
                  \o Chars("the 42 x.")
  IN  header \o body \o footer

\* the entry of the 2nd: a word written mostly in the first month, and one
\* written often only in a short journal
earlyContent(k, M, seed) ==
  repeat(Chars("rain"), IF M <= 3 THEN 5 ELSE 1)
    \o repeat(Chars("ox"), IF k = 1 THEN 6 + 2 * seed ELSE 0)
    \o repeat(Chars("ox"), IF k = M THEN 1 ELSE 0)

\* the entry of the 20th of every third month
lateContent(k) == Chars("Sun and tea; go ") \o repeat(Chars("late"), k \div 6)

RECURSIVE mixFiles(_, _, _)
mixFiles(k, M, seed) ==
  IF k = 0 THEN <<>>
  ELSE (IF k % 3 = 0
          THEN << [name |-> entryName(k, 20), content |-> lateContent(k)] >>
          ELSE <<>>)
       \o << [name |-> entryName(k, 5), content |-> mainContent(k, M, seed)] >>
       \o (IF k = 1 \/ k = M \/ M <= 3
             THEN << [name |-> entryName(k, 2), content |-> earlyContent(k, M, seed)] >>
             ELSE <<>>)
       \o mixFiles(k - 1, M, seed)

\* word i of the wide journals: two letters, none a stopword
wideWord(i) == <<Chars("qzjkv")[(i \div 26) + 1], LowerLetters[(i % 26) + 1]>>

\* words i..hi-1 of the wide journals, each written base times and up to
\* spread more
RECURSIVE wideContent(_, _, _, _)
wideContent(i, hi, base, spread) ==
  IF i >= hi THEN <<>>
  ELSE repeat(wideWord(i), base + (IF spread THEN i % 3 ELSE 0))
       \o wideContent(i + 1, hi, base, spread)

\* the entries of month k of a wide journal of n words, per words in each
RECURSIVE wideMonth(_, _, _, _, _, _)
wideMonth(k, d, n, per, base, spread) ==
  IF (d - 1) * per >= n THEN <<>>
  ELSE << [name |-> entryName(k, d),
           content |-> wideContent((d - 1) * per, Min2(n, d * per), base, spread)] >>
       \o wideMonth(k, d + 1, n, per, base, spread)

\* a journal of three months in which n words are written 4 times each in the
\* second month and 6 to 8 times each in the third
wideFiles(n) ==
  wideMonth(3, 1, n, 2, 6, TRUE) \o wideMonth(2, 1, n, 4, 4, FALSE)
    \o << [name |-> entryName(1, 9), content |-> Chars("qa, qb. The sun")] >>

OtherFiles ==
  << [name |-> Chars("notes.md"), content |-> Chars("tea tea tea tea tea tea tea tea tea tea tea")],
     [name |-> Chars("2023-1-05.md"), content |-> Chars("sun sun sun")],
     [name |-> Chars("2023-01-05.txt"), content |-> Chars("Go Go Go")] >>

\* the directory listings: in no date order, with files that are not entries
Directories ==
  { <<>> }
    \cup { mixFiles(M, M, seed) \o OtherFiles : M \in 1..MaxMonths, seed \in 0..MaxSeed }
    \cup { wideFiles(n) : n \in {NWide - 3, NWide} }

NoEntries == [loaded |-> FALSE, list |-> <<>>]

\* const entries = await loadEntries()
LoadEntries ==
  /\ ~entries.loaded
  /\ entries' = [loaded |-> TRUE, list |-> loadEntries(files)]
  /\ UNCHANGED <<files, stats, entryVars, sparkVars, orderVars, syncVars>>

\* statsPage(entries)
StatsPage ==
  /\ entries.loaded
  /\ ~stats.done
  /\ stats' = statsPage(entries.list)
  /\ UNCHANGED <<files, entries, entryVars, sparkVars, orderVars, syncVars>>

NextStats == LoadEntries \/ StatsPage

StatsIdle == files = <<>> /\ entries = NoEntries /\ stats = NoStats

-----------------------------------------------------------------------------
(* The aggregation of statsPage over the same entries passed in another order *)

MaxShuffled == 5

\* entry j of a journal that runs over the turn of a year, two entries a month;
\* the entries share some words and each has words of its own
shuffleContent(j) ==
  repeat(Chars("tea"), 1 + (j % 3))
    \o repeat(wideWord(j), 2)
    \o (IF j % 2 = 0 THEN Chars("Sun, 42 and 7") ELSE Chars("go to the sun 42"))

RECURSIVE shuffleFiles(_)
shuffleFiles(n) ==
  IF n = 0 THEN <<>>
  ELSE << [name |-> entryName(12 + (n - 1) \div 2, 5 + 10 * ((n - 1) % 2)),
           content |-> shuffleContent(n)] >>
       \o shuffleFiles(n - 1)

\* the orders in which n entries can be passed
Orders(n) == {p \in [1..n -> 1..n] : \A i, j \in 1..n : p[i] = p[j] => i = j}

\* the entries in the order p
reorder(es, p) == Array([i \in 1..Len(es) |-> es[p[i]]])

NoShuffle == [done |-> FALSE, order |-> <<>>, page |-> NoStats]

\* statsPage(entries) with the entries in another order
StatsPageReordered ==
  /\ stats.done
  /\ ~shuffled.done
  /\ \E p \in Orders(Len(entries.list)) :
       shuffled' = [done |-> TRUE, order |-> p, page |-> statsPage(reorder(entries.list, p))]
  /\ UNCHANGED <<statsVars, entryVars, sparkVars, syncVars>>

NextOrder == LoadEntries \/ StatsPage \/ StatsPageReordered

OrderIdle == shuffled = NoShuffle

-----------------------------------------------------------------------------
(* The sync script: syncFromObsidian.  Every command and file operation it   *)
(* awaits either succeeds or throws; what it throws is caught by the inner   *)
(* catch (the clone) or by the outer one (everything else).                  *)

MaxListing == 2

\* names readdir may find in the vault's folder
SyncNames ==
  { Chars("2023-12-31.md"), Chars("2024-01-05.md"), Chars("2024-01-06.md"),
    Chars("notes.md"), Chars("2024-1-07.md") }

\* what readdir(OBSIDIAN_ENTRIES_PATH) may return
Listings ==
  UNION { {l \in [1..n -> SyncNames] : \A i, j \in 1..n : l[i] = l[j] => i = j} : n \in 0..MaxListing }

\* f.endsWith(suffix)
endsWith(f, suffix) ==
  Len(f) >= Len(suffix) /\ SubSeq(f, Len(f) - Len(suffix) + 1, Len(f)) = suffix

\* f => f.endsWith('.md') && /^\d{4}-\d{2}-\d{2}\.md$/.test(f)
isJournalFile(f) == endsWith(f, Chars(".md")) /\ isValidEntryFilename(f)

\* the script is not running
NoSync ==
  [pc |-> "idle", steps |-> <<>>, tempAtStart |-> FALSE, tempDir |-> FALSE,
   mdFiles |-> <<>>, copied |-> <<>>, exitCode |-> 0]

\* the script at its first command, with or without a TEMP_DIR left by an
\* earlier run; exitCode is 0 as long as process.exit has not been called
SyncStarts ==
  { [NoSync EXCEPT !.pc = "clone", !.tempAtStart = t, !.tempDir = t] : t \in BOOLEAN }

\* the steps run so far, with the step that has just ended
logged(step, ok) == Append(sync.steps, [step |-> step, ok |-> ok])

\* mutant of catchExit: the error is logged and the script returns
catchExit_Returns(step) == [sync EXCEPT !.pc = "returned", !.steps = logged(step, FALSE)]

\* catch (error) { console.error(...); process.exit(1); }
catchExit(step) == [sync EXCEPT !.pc = "exit1", !.exitCode = 1, !.steps = logged(step, FALSE)]

\* await execAsync(`git clone ${OBSIDIAN_REPO_URL} "${TEMP_DIR}"`), and the
\* inner catch, which goes on to the pull whatever was thrown
GitClone ==
  /\ sync.pc = "clone"
  /\ \/ sync' = [sync EXCEPT !.pc = "mkdir", !.tempDir = TRUE, !.steps = logged("clone", TRUE)]
     \/ sync' = [sync EXCEPT !.pc = "pull", !.steps = logged("clone", FALSE)]
  /\ UNCHANGED <<entryVars, sparkVars, statsVars, orderVars>>

\* await execAsync(`cd "${TEMP_DIR}" && git pull`): cd fails without a TEMP_DIR
GitPull ==
  /\ sync.pc = "pull"
  /\ \/ /\ sync.tempDir
        /\ sync' = [sync EXCEPT !.pc = "mkdir", !.steps = logged("pull", TRUE)]
     \/ sync' = catchExit("pull")
  /\ UNCHANGED <<entryVars, sparkVars, statsVars, orderVars>>

\* await mkdir(ENTRIES_DIR, { recursive: true })
MakeEntriesDir ==
  /\ sync.pc = "mkdir"
  /\ \/ sync' = [sync EXCEPT !.pc = "readdir", !.steps = logged("mkdir", TRUE)]
     \/ sync' = catchExit("mkdir")
  /\ UNCHANGED <<entryVars, sparkVars, statsVars, orderVars>>

\* const files = await readdir(OBSIDIAN_ENTRIES_PATH); const mdFiles = files.filter(...)
ReadVault ==
  /\ sync.pc = "readdir"
  /\ \/ \E l \in Listings :
          sync' = [sync EXCEPT !.mdFiles = SelectSeq(l, isJournalFile),
                               !.pc = IF SelectSeq(l, isJournalFile) = <<>> THEN "build" ELSE "copy",
                               !.steps = logged("readdir", TRUE)]
     \/ sync' = catchExit("readdir")
  /\ UNCHANGED <<entryVars, sparkVars, statsVars, orderVars>>

\* one turn of for (const file of mdFiles) { await copyFile(srcPath, destPath); }
CopyEntry ==
  /\ sync.pc = "copy"
  /\ \/ sync' = [sync EXCEPT !.copied = Append(@, Head(sync.mdFiles)),
                             !.mdFiles = Tail(@),
                             !.pc = IF Tail(sync.mdFiles) = <<>> THEN "build" ELSE "copy",
                             !.steps = logged("copy", TRUE)]
     \/ sync' = catchExit("copy")
  /\ UNCHANGED <<entryVars, sparkVars, statsVars, orderVars>>

\* await execAsync('npm run build', { cwd: ROOT_DIR })
BuildSite ==
  /\ sync.pc = "build"
  /\ \/ sync' = [sync EXCEPT !.pc = "deploy", !.steps = logged("build", TRUE)]
     \/ sync' = catchExit("build")
  /\ UNCHANGED <<entryVars, sparkVars, statsVars, orderVars>>

\* await execAsync('npm run deploy', { cwd: ROOT_DIR })
DeploySite ==
  /\ sync.pc = "deploy"
  /\ \/ sync' = [sync EXCEPT !.pc = "rm", !.steps = logged("deploy", TRUE)]
     \/ sync' = catchExit("deploy")
  /\ UNCHANGED <<entryVars, sparkVars, statsVars, orderVars>>

\* await execAsync(`rm -rf "${TEMP_DIR}"`): rm -rf fails only when something
\* of the directory could not be removed
RemoveTemp ==
  /\ sync.pc = "rm"
  /\ \/ sync' = [sync EXCEPT !.pc = "returned", !.tempDir = FALSE, !.steps = logged("rm", TRUE)]
     \/ sync' = catchExit("rm")
  /\ UNCHANGED <<entryVars, sparkVars, statsVars, orderVars>>

NextSync ==
  \/ GitClone
  \/ GitPull
  \/ MakeEntriesDir
  \/ ReadVault
  \/ CopyEntry
  \/ BuildSite
  \/ DeploySite
  \/ RemoveTemp

SyncIdle == sync = NoSync

-----------------------------------------------------------------------------
(* Claims about the normalizer *)

\* the text the normalizer returns for the region [from, to) of lines
RegionText(lines, from, to) ==
  LET body == trim(collapseNewlines(join(SubSeq(lines, from + 1, to)), 1))
  IN  IF body = <<>> THEN <<>> ELSE body \o <<"\n">>

\* the region start the header rule prescribes for lines
HeaderRuleStart(lines) ==
  LET n == Len(lines)
      marked == {i \in 0..(n - 1) : isMustDos(lines[i + 1])}
  IN  IF marked = {} THEN 0
      ELSE LET i == SetMin(marked)
           IN  SetMin({j \in (i + 1)..n : j = n \/ ~isListOrBlank(lines[j + 1])})

\* the region end the footer rule prescribes for lines, given the region start
FooterRuleEnd(lines, start) ==
  LET n == Len(lines)
  IN  SetMin({j \in start..n : j = n \/ isFooter(lines[j + 1])})

\* C1 (as claimed): normalization is idempotent.  A second run of the clean
\* script finds the file already clean and rewrites nothing, and the text the
\* tokenizer normalizes again equals the normalized markdown kept on the entry.
C1_Idempotent ==
  /\ runs >= 2 => lastClean.cleaned = lastClean.orig /\ lastClean.changed = 0
  /\ tok.done => tok.normalized = entry.markdown

\* C6: header removal.  With a Must Do's marker first at line i the region
\* starts at the first line after i that is neither list item nor blank (or at
\* the end of the text); without a marker it starts at line 0.  Nothing before
\* the start reaches the output.  Both for the build and for the clean script.
C6_HeaderRemoval ==
  /\ entry.loaded =>
       LET lines == split(entry.raw)
       IN  /\ entry.startIdx = HeaderRuleStart(lines)
           /\ entry.markdown = RegionText(lines, HeaderRuleStart(lines), entry.endIdx)
  /\ lastClean.ran =>
       LET lines == split(lastClean.orig)
       IN  /\ lastClean.startIdx = HeaderRuleStart(lines)
           /\ lastClean.cleaned = RegionText(lines, HeaderRuleStart(lines), lastClean.endIdx)

\* C6 witness: an intro line, the marker, a list item and a blank line were
\* dropped from a loaded entry whose body survived.
C6_Witness ==
  /\ entry.loaded
  /\ LET lines == split(entry.raw)
     IN  /\ Len(lines) >= 5
         /\ ~isMustDos(lines[1]) /\ isMustDos(lines[2])
         /\ isListOrBlank(lines[3]) /\ isBlank(lines[4])
         /\ entry.startIdx = 4
  /\ entry.markdown # <<>>

\* C7: footer removal.  The region ends right before the first footer line at
\* or after the region start (at the end of the text if there is none); that
\* line and all later lines are absent from the output, and a footer line
\* before the region start does not truncate.  Both for the build and for the
\* clean script.
C7_FooterRemoval ==
  /\ entry.loaded =>
       LET lines == split(entry.raw)
       IN  /\ entry.endIdx = FooterRuleEnd(lines, entry.startIdx)
           /\ entry.markdown = RegionText(lines, entry.startIdx, FooterRuleEnd(lines, entry.startIdx))
  /\ lastClean.ran =>
       LET lines == split(lastClean.orig)
       IN  /\ lastClean.endIdx = FooterRuleEnd(lines, lastClean.startIdx)
           /\ lastClean.cleaned = RegionText(lines, lastClean.startIdx, FooterRuleEnd(lines, lastClean.startIdx))

\* C7 witness: a footer line above the header did not truncate, a footer line
\* after the body did, and lines followed it.
C7_Witness ==
  /\ entry.loaded
  /\ LET lines == split(entry.raw)
     IN  /\ \E i \in 0..(entry.startIdx - 1) : isFooter(lines[i + 1])
         /\ entry.startIdx < entry.endIdx
         /\ entry.endIdx + 1 < Len(lines)
  /\ entry.markdown # <<>>

-----------------------------------------------------------------------------
(* Claims about the tokenizer and the stopword filter *)

\* C10: the filtered sequence is the order-preserving subsequence of exactly
\* the tokens longer than one character that are not stopwords, so it holds no
\* stopword and no token of length <= 1; tokens are lower-case letters, digits
\* and apostrophes only, so neither the case nor the punctuation of the source
\* lets a stopword through.
C10_StopwordFilter ==
  tok.done =>
    LET t == tok.tokens
        f == tok.filtered
        keep == {i \in 1..Len(t) : Len(t[i]) > 1 /\ t[i] \notin STOPWORDS}
    IN  /\ Len(f) = Cardinality(keep)
        /\ \A i \in keep : f[Cardinality({j \in keep : j < i}) + 1] = t[i]
        /\ \A k \in 1..Len(f) : Len(f[k]) > 1 /\ f[k] \notin STOPWORDS
        /\ \A i \in 1..Len(t) : \A k \in 1..Len(t[i]) :
             t[i][k] \in LowerSet \cup Digits \cup {"'"}

\* C10 witness: the text "The, run I" was tokenized to the, run, i and only
\* run was kept.
C10_Witness ==
  /\ tok.done
  /\ entry.raw = Chars("The, run I")
  /\ tok.tokens = <<Chars("the"), Chars("run"), Chars("i")>>
  /\ tok.filtered = <<Chars("run")>>

-----------------------------------------------------------------------------
(* Claims about the sparkline renderer *)

IsConstant(a) == Len(a) >= 1 /\ \A k \in 1..Len(a) : a[k] = a[1]

\* C8 (as claimed): a constant series is drawn with range 1 as a flat line on
\* the vertical mid-line, y = height / 2.
C8_MidLine ==
  (svg.done /\ IsConstant(values)) =>
    /\ svg.range = 1
    /\ \A k \in 1..Len(values) : 2 * svg.points[k].y.num = geom.height * svg.points[k].y.den

\* C8 (amended): a constant series is drawn with range 1 (no division by
\* zero) as a flat line on the bottom edge of the drawable area,
\* y = height - padding, for every point.
C8_FlatBottom ==
  (svg.done /\ IsConstant(values)) =>
    /\ svg.range = 1
    /\ \A k \in 1..Len(values) :
         /\ svg.points[k].y = [num |-> geom.height - pad, den |-> 1]
         /\ svg.d[k].y = 100 * (geom.height - pad)

\* C8 witness: a constant series of several non-zero values was rendered.
C8_Witness ==
  /\ svg.done
  /\ Len(values) >= 3
  /\ IsConstant(values)
  /\ values[1] > 0
  /\ Len(svg.d) = Len(values)

\* C9: sparkline geometry.  The empty series gives the empty result; n >= 1
\* values give n commands, M then L's; one point sits at x = padding; for
\* n >= 2 the x run strictly increasing in equal steps from padding to
\* width - padding (as printed: equal up to one hundredth); every y is within
\* [padding, height - padding]; with min < max the maximum is drawn at
\* y = padding, the minimum at y = height - padding, and a larger value never
\* gets a larger y.
C9_Geometry ==
  svg.done =>
    LET n == Len(values)
        W == geom.width
        H == geom.height
        P == svg.points
        D == svg.d
    IN  /\ (n = 0) = svg.empty
        /\ Len(D) = n /\ Len(P) = n
        /\ \A k \in 1..n : D[k].op = (IF k = 1 THEN "M" ELSE "L")
        /\ n = 1 => P[1].x.num = pad * P[1].x.den /\ D[1].x = 100 * pad
        /\ n >= 2 =>
             /\ P[1].x.num = pad * P[1].x.den /\ D[1].x = 100 * pad
             /\ P[n].x.num = (W - pad) * P[n].x.den /\ D[n].x = 100 * (W - pad)
             /\ \A k \in 1..(n - 1) :
                  /\ P[k].x.den = P[k + 1].x.den
                  /\ P[k].x.num < P[k + 1].x.num
                  /\ P[k + 1].x.num - P[k].x.num = P[2].x.num - P[1].x.num
                  /\ D[k].x < D[k + 1].x
                  /\ (D[k + 1].x - D[k].x) - (D[2].x - D[1].x) \in {-1, 0, 1}
        /\ \A k \in 1..n :
             /\ pad * P[k].y.den <= P[k].y.num /\ P[k].y.num <= (H - pad) * P[k].y.den
             /\ 100 * pad <= D[k].y /\ D[k].y <= 100 * (H - pad)
        /\ (n >= 1 /\ SeqMin(values) < SeqMax(values)) =>
             \A k \in 1..n :
               /\ values[k] = SeqMax(values) => P[k].y.num = pad * P[k].y.den /\ D[k].y = 100 * pad
               /\ values[k] = SeqMin(values) =>
                    P[k].y.num = (H - pad) * P[k].y.den /\ D[k].y = 100 * (H - pad)
               /\ \A j \in 1..n : values[k] > values[j] =>
                    /\ P[k].y.num * P[j].y.den <= P[j].y.num * P[k].y.den
                    /\ D[k].y <= D[j].y

\* C9 witness: a series of four values with three distinct levels was rendered
\* at width 280, where the steps do not fall on whole hundredths.
C9_Witness ==
  /\ svg.done
  /\ geom.width = 280
  /\ values = <<1, 3, 0, 2>>
  /\ svg.d[2].x = 9533
  /\ svg.d[1].op = "M" /\ svg.d[4].op = "L"

-----------------------------------------------------------------------------
(* Claims about the statistics page: the Month Index, the monthly series,  *)
(* the minimum-occurrence gate and the hottest-words ranking.  The counts   *)
(* are stated on the entries themselves, not on the Maps of the page.       *)

\* the filtered tokens of every loaded entry
EntryTokens == Array([i \in 1..Len(entries.list) |-> tokensOf(entries.list[i])])

\* the number of occurrences of word w in the entries whose month key is key
OccurrencesInMonth(toks, w, key) ==
  SeqSum([i \in 1..Len(toks) |->
            IF monthKey(entries.list[i]) = key
              THEN Cardinality({j \in 1..Len(toks[i]) : toks[i][j] = w})
              ELSE 0])

\* the number of occurrences of word w in the months of the Month Index from
\* the from-th key on
OccurrencesFrom(toks, w, from) ==
  SeqSum([k \in 1..(Len(stats.monthlyOrder) - from + 1) |->
            OccurrencesInMonth(toks, w, stats.monthlyOrder[from + k - 1])])

\* the sum of a[lo..hi], 1-based
SumBetween(a, lo, hi) == SeqSum([k \in 1..(hi - lo + 1) |-> a[lo + k - 1]])

\* the words the trend rankings hold: the spiky list and the hottest ranking
RankedWords ==
  {stats.wordsGte10[i][1] : i \in 1..Len(stats.wordsGte10)}
    \cup {stats.hottest[i].word : i \in 1..Len(stats.hottest)}

\* the series handed to the trend rankings and their sparklines, with their words
RankedSeries ==
  {<<stats.wordsGte10[i][1], stats.wordsGte10[i][2]>> : i \in 1..Len(stats.wordsGte10)}
    \cup {<<stats.hottest[i].word, stats.hottest[i].series>> : i \in 1..Len(stats.hottest)}

\* the Month Index is the distinct month keys of all entries, ascending
MonthIndexBuilt ==
  LET mo == stats.monthlyOrder
  IN  /\ Range(mo) = {monthKey(entries.list[i]) : i \in 1..Len(entries.list)}
      /\ \A i, j \in 1..Len(mo) : i < j => localeCompare(mo[i], mo[j]) < 0

\* the matrix as built: one row per surviving word, one element per month key,
\* element i the occurrences in month i, the sum the overall count
MatrixAligned(toks) ==
  LET mo == stats.monthlyOrder
      m  == stats.perWordMonthCounts
  IN  /\ DOMAIN m.val = UNION {Range(toks[i]) : i \in 1..Len(toks)}
      /\ \A w \in DOMAIN m.val :
           /\ Len(m.val[w]) = Len(mo)
           /\ \A i \in 1..Len(mo) : m.val[w][i] = OccurrencesInMonth(toks, w, mo[i])
           /\ SeqSum(m.val[w]) = stats.overall.val[w]

\* C2: a word is in the trend rankings (the spiky list wordsGte10 and the
\* hottest ranking) only if its occurrences in the months of the Month Index
\* after the first total at least 10, whatever its count in the first month.
C2_MinimumOccurrenceGate ==
  stats.done =>
    LET toks == EntryTokens
    IN  \A w \in RankedWords : OccurrencesFrom(toks, w, 2) >= MinOccurrences

\* what the code gates on: the occurrences in all months, the first included
GateOnAllMonths ==
  stats.done =>
    LET toks == EntryTokens
    IN  /\ \A w \in RankedWords : OccurrencesFrom(toks, w, 1) >= MinOccurrences
        /\ \A w \in DOMAIN stats.perWordMonthCounts.val :
             OccurrencesFrom(toks, w, 1) >= MinOccurrences
               => \E i \in 1..Len(stats.wordsGte10) : stats.wordsGte10[i][1] = w

Clamp(x, lo, hi) == IF x < lo THEN lo ELSE IF x > hi THEN hi ELSE x

\* C3: windowN = clamp(floor(monthCount / 8), 1, 3); for every eligible word
\* recentSum is the sum of the last windowN values of its series without the
\* first month, and prevSum is the sum of the windowN values just before that
\* window when that series has at least 2 * windowN months, and 0 otherwise.
C3_WindowSums ==
  stats.done =>
    LET w == stats.windowN
    IN  /\ w = Clamp(Len(stats.monthlyOrder) \div 8, 1, 3)
        /\ Len(stats.scored) = Len(stats.wordsGte10)
        /\ \A i \in 1..Len(stats.scored) :
             LET x      == stats.scored[i]
                 series == Tail(stats.perWordMonthCounts.val[x.word])
                 L      == Len(series)
             IN  /\ x.word = stats.wordsGte10[i][1]
                 /\ x.series = series
                 /\ x.recent = SumBetween(series, Max2(1, L - w + 1), L)
                 /\ x.prev = IF L >= 2 * w
                               THEN SumBetween(series, L - 2 * w + 1, L - w)
                               ELSE 0

\* C3 witness: a journal of at least 24 months, so windowN = 3, with an
\* eligible word that was written in both windows, and more often in one.
C3_Witness ==
  /\ stats.done
  /\ stats.windowN = 3
  /\ \E i \in 1..Len(stats.scored) :
       /\ Len(stats.scored[i].series) >= 6
       /\ stats.scored[i].prev > 0
       /\ stats.scored[i].recent > stats.scored[i].prev

\* the hottest ranking but for the gate: deltas positive and exact, order
\* non-increasing, at most 50 entries, no omitted word hotter than a kept one
HottestRanked ==
  stats.done =>
    LET h == stats.hottest
        kept == {h[i].word : i \in 1..Len(h)}
    IN  /\ \A i \in 1..Len(h) : h[i].delta > 0 /\ h[i].delta = h[i].recent - h[i].prev
        /\ \A i \in 1..Len(h) : \E k \in 1..Len(stats.scored) : stats.scored[k] = h[i]
        /\ \A i, j \in 1..Len(h) : i < j => h[i].delta >= h[j].delta /\ h[i].word # h[j].word
        /\ Len(h) <= HottestCap
        /\ \A k \in 1..Len(stats.scored) :
             stats.scored[k].delta > 0 /\ stats.scored[k].word \notin kept
               => /\ Len(h) = HottestCap
                  /\ \A i \in 1..Len(h) : stats.scored[k].delta <= h[i].delta

\* C4: every entry of the hottest ranking has delta > 0 and delta = recentSum -
\* prevSum; the ranking is in non-increasing order of delta, has at most 50
\* entries and only words that passed the minimum-occurrence gate (at least 10
\* occurrences after the first month); when more than 50 words have a positive
\* delta, no omitted word has a greater delta than a retained one.
C4_HottestRanking ==
  /\ HottestRanked
  /\ stats.done =>
       LET toks == EntryTokens
       IN  \A i \in 1..Len(stats.hottest) :
             OccurrencesFrom(toks, stats.hottest[i].word, 2) >= MinOccurrences

\* the ranking was capped: more than 50 words had a positive delta
HottestCapped ==
  /\ stats.done
  /\ Len(stats.hottest) = HottestCap
  /\ Cardinality({k \in 1..Len(stats.scored) : stats.scored[k].delta > 0}) > HottestCap

\* C5 as stated: the alignment of the matrix as built holds as well for the
\* series handed to the trend rankings and sparklines: one element per key of
\* the Month Index, element i the occurrences in month i, the sum the overall count.
C5_AlignmentOfAllSeries ==
  stats.done =>
    LET toks == EntryTokens
        mo   == stats.monthlyOrder
    IN  /\ MonthIndexBuilt
        /\ MatrixAligned(toks)
        /\ \A r \in RankedSeries :
             /\ Len(r[2]) = Len(mo)
             /\ \A i \in 1..Len(mo) : r[2][i] = OccurrencesInMonth(toks, r[1], mo[i])
             /\ SeqSum(r[2]) = stats.overall.val[r[1]]

\* C5, amended: the matrix as built has, for every surviving word, one element
\* per key of the Month Index, element i the occurrences of the word in the
\* entries of month i, and the overall count as its sum; the series handed to
\* the trend rankings and sparklines is that row without its first element: one
\* element fewer than the Month Index has keys, element i the occurrences in
\* month i + 1, and as its sum the overall count less the first month's.
C5_Alignment ==
  stats.done =>
    LET toks == EntryTokens
        mo   == stats.monthlyOrder
    IN  /\ MonthIndexBuilt
        /\ MatrixAligned(toks)
        /\ \A r \in RankedSeries :
             /\ Len(r[2]) = Len(mo) - 1
             /\ \A i \in 1..(Len(mo) - 1) :
                  r[2][i] = OccurrencesInMonth(toks, r[1], mo[i + 1])
             /\ SeqSum(r[2]) = stats.overall.val[r[1]] - OccurrencesInMonth(toks, r[1], mo[1])

\* C5 witness: a ranked word that two entries of one month both hold and that
\* was written in the first month too, in a journal of three months or more.
C5_Witness ==
  /\ stats.done
  /\ Len(stats.monthlyOrder) >= 3
  /\ \E r \in RankedSeries :
       /\ stats.perWordMonthCounts.val[r[1]][1] > 0
       /\ \E i, j \in 1..Len(entries.list) :
            /\ i < j
            /\ monthKey(entries.list[i]) = monthKey(entries.list[j])
            /\ r[1] \in Range(tokensOf(entries.list[i]))
            /\ r[1] \in Range(tokensOf(entries.list[j]))

-----------------------------------------------------------------------------
(* Claims about the aggregator *)

\* the per-year frequency tables as a mapping from year to word to count
YearTables(page) == [y \in DOMAIN page.perYear.val |-> page.perYear.val[y].val]

\* C11: whatever the order in which the entries are passed to the aggregation,
\* the per-year totals, the per-month totals, the overall and the per-year
\* frequency tables (as mappings from word to count) and the per-word monthly
\* series are the same as for the entries in date order.
C11_OrderIndependence ==
  shuffled.done =>
    /\ shuffled.page.byYear = stats.byYear
    /\ shuffled.page.perMonth = stats.perMonth
    /\ shuffled.page.overall.val = stats.overall.val
    /\ YearTables(shuffled.page) = YearTables(stats)
    /\ shuffled.page.monthlyOrder = stats.monthlyOrder
    /\ shuffled.page.perWordMonthCounts.val = stats.perWordMonthCounts.val

\* C11 witness: entries of two years, two of them of one month, were passed in
\* an order in which the words were met in another order than in date order.
C11_Witness ==
  /\ shuffled.done
  /\ Len(stats.byYear) >= 2
  /\ Len(stats.perMonth) < Len(entries.list)
  /\ shuffled.page.overall.keys # stats.overall.keys
  /\ shuffled.page.perYear.keys # stats.perYear.keys

\* the code point of a character of a month key
CodePoint(c) == IF c = "-" THEN 45 ELSE 48 + (CHOOSE v \in 0..9 : Chars("0123456789")[v + 1] = c)

\* a comes before b in lexicographic order
LexLess(a, b) ==
  \E p \in 1..(Len(a) + 1) :
    /\ p <= Len(b)
    /\ \A q \in 1..(p - 1) : a[q] = b[q]
    /\ (p = Len(a) + 1 \/ CodePoint(a[p]) < CodePoint(b[p]))

\* the "YYYY-MM" key of an entry: the first seven characters of its slug
YearMonth(e) == SubSeq(e.meta.slug, 1, 7)

\* the sum of the filtered-token counts of the entries i that are in a group
GroupTotal(toks, InGroup(_)) ==
  SeqSum([i \in 1..Len(toks) |-> IF InGroup(i) THEN Len(toks[i]) ELSE 0])

\* C12: the per-year sequence has exactly one pair per distinct year, in
\* strictly ascending order of year; the per-month sequence has exactly one pair
\* per distinct "YYYY-MM" key, in strictly ascending lexicographic order; each
\* total is the sum of the filtered-token counts of the entries of its group;
\* both sequences sum to the total word count; no entries give empty sequences
\* and a total of 0.
C12_Totals ==
  stats.done =>
    LET es   == entries.list
        toks == EntryTokens
        by   == stats.byYear
        pm   == stats.perMonth
    IN  /\ {by[k].year : k \in 1..Len(by)} = {es[i].meta.year : i \in 1..Len(es)}
        /\ \A k, l \in 1..Len(by) : k < l => by[k].year < by[l].year
        /\ \A k \in 1..Len(by) :
             LET InYear(i) == es[i].meta.year = by[k].year
             IN  by[k].total = GroupTotal(toks, InYear)
        /\ {pm[k][1] : k \in 1..Len(pm)} = {YearMonth(es[i]) : i \in 1..Len(es)}
        /\ \A k, l \in 1..Len(pm) : k < l => LexLess(pm[k][1], pm[l][1])
        /\ \A k \in 1..Len(pm) :
             LET InMonth(i) == YearMonth(es[i]) = pm[k][1]
             IN  pm[k][2] = GroupTotal(toks, InMonth)
        /\ stats.totalWords = SeqSum([i \in 1..Len(toks) |-> Len(toks[i])])
        /\ SeqSum([k \in 1..Len(by) |-> by[k].total]) = stats.totalWords
        /\ SeqSum([k \in 1..Len(pm) |-> pm[k][2]]) = stats.totalWords
        /\ es = <<>> => by = <<>> /\ pm = <<>> /\ stats.totalWords = 0

\* C12 witness: a journal of three years, listed out of date order, with
\* months of several entries and years of several months.
C12_Witness ==
  /\ stats.done
  /\ Len(stats.byYear) >= 3
  /\ Len(stats.perMonth) > Len(stats.byYear)
  /\ Len(entries.list) > Len(stats.perMonth)
  /\ \A k \in 1..Len(stats.perMonth) : stats.perMonth[k][2] > 0

\* C12 witness of the empty case: the page of a directory without entries
C12_EmptyWitness == stats.done /\ entries.list = <<>> /\ files = <<>>

\* a token of decimal digits only
PurelyNumeric(t) == t # <<>> /\ \A k \in 1..Len(t) : t[k] \in Digits

\* the number of occurrences of word w in the entries of year y
OccurrencesInYear(toks, w, y) ==
  SeqSum([i \in 1..Len(toks) |->
            IF entries.list[i].meta.year = y
              THEN Cardinality({j \in 1..Len(toks[i]) : toks[i][j] = w})
              ELSE 0])

\* C13: the unique word count is the number of distinct filtered tokens of all
\* entries that are not purely numeric; the purely numeric tokens are counted
\* in the overall and the per-year frequency tables all the same, so the unique
\* count is the number of keys of the overall table less the number of its
\* purely numeric keys, and never more than the number of keys.
C13_UniqueWords ==
  stats.done =>
    LET toks    == EntryTokens
        words   == UNION {Range(toks[i]) : i \in 1..Len(toks)}
        keys    == DOMAIN stats.overall.val
        numbers == {w \in keys : PurelyNumeric(w)}
    IN  /\ stats.totalUniqueWords = Cardinality({w \in words : ~PurelyNumeric(w)})
        /\ keys = words
        /\ \A w \in words : PurelyNumeric(w) =>
             /\ stats.overall.val[w] = OccurrencesFrom(toks, w, 1)
             /\ \A i \in 1..Len(toks) : w \in Range(toks[i]) =>
                  LET y == entries.list[i].meta.year
                  IN  /\ has(stats.perYear, y)
                      /\ has(stats.perYear.val[y], w)
                      /\ stats.perYear.val[y].val[w] = OccurrencesInYear(toks, w, y)
        /\ stats.totalUniqueWords = Cardinality(keys) - Cardinality(numbers)
        /\ stats.totalUniqueWords <= Cardinality(keys)

\* C13 witness: a journal of several years whose entries hold a number written
\* more than once, next to words.
C13_Witness ==
  /\ stats.done
  /\ Len(stats.byYear) >= 2
  /\ stats.totalUniqueWords >= 2
  /\ \E w \in DOMAIN stats.overall.val :
       /\ PurelyNumeric(w)
       /\ stats.overall.val[w] >= 2
       /\ stats.totalUniqueWords < Cardinality(DOMAIN stats.overall.val)

-----------------------------------------------------------------------------
(* Claims about the sync script *)

\* the place of a command in the order of the steps: clone-or-pull, create
\* the entries directory, copy the entries, build, deploy, remove the temp
\* directory
Phase(step) ==
  CASE step \in {"clone", "pull"}   -> 1
    [] step = "mkdir"               -> 2
    [] step \in {"readdir", "copy"} -> 3
    [] step = "build"               -> 4
    [] step = "deploy"              -> 5
    [] step = "rm"                  -> 6

\* the commands of phase ph that have run
StepsOfPhase(ph) == {i \in 1..Len(sync.steps) : Phase(sync.steps[i].step) = ph}

\* phase ph has run to its end without an error
PhaseDoneBefore(ph, j) ==
  /\ \E i \in 1..(j - 1) : Phase(sync.steps[i].step) = ph /\ sync.steps[i].ok
  /\ \A i \in 1..(j - 1) :
       Phase(sync.steps[i].step) = ph /\ ~sync.steps[i].ok => sync.steps[i].step = "clone"

\* the order of the steps, the pull after a failed clone, and the end of the
\* run at the first failure other than the clone's
SyncOrdered ==
  LET log == sync.steps
      n   == Len(log)
  IN  \* the steps run in their order, each once, and each only after every
      \* step before it has succeeded
      /\ \A i, j \in 1..n : i < j => Phase(log[i].step) <= Phase(log[j].step)
      /\ \A ph \in {2, 4, 5, 6} : Cardinality(StepsOfPhase(ph)) <= 1
      /\ \A j \in 1..n : \A ph \in 1..(Phase(log[j].step) - 1) : PhaseDoneBefore(ph, j)
      /\ \A j \in 1..n : Phase(log[j].step) > 3 => sync.mdFiles = <<>>
      /\ Cardinality({i \in 1..n : log[i].step = "copy" /\ log[i].ok}) = Len(sync.copied)
      \* the clone is tried first and once; its failure is followed by exactly
      \* one pull, and there is no pull without it
      /\ \A i \in 1..n : log[i].step = "clone" <=> i = 1
      /\ \A i \in 1..n : log[i].step = "pull" <=> i = 2 /\ ~log[1].ok
      /\ n >= 1 /\ ~log[1].ok => IF n = 1 THEN sync.pc = "pull" ELSE log[2].step = "pull"
      \* deploy only after the build succeeded, rm only after deploy succeeded
      /\ \A j \in 1..n : log[j].step = "deploy" =>
           \E i \in 1..(j - 1) : log[i] = [step |-> "build", ok |-> TRUE]
      /\ \A j \in 1..n : log[j].step = "rm" =>
           \E i \in 1..(j - 1) : log[i] = [step |-> "deploy", ok |-> TRUE]
      \* a failure of the pull or of a later step is the last step of the run,
      \* which ends with exit code 1
      /\ \A i \in 1..n : ~log[i].ok /\ log[i].step # "clone" =>
           i = n /\ sync.pc = "exit1" /\ sync.exitCode = 1
      /\ sync.pc = "exit1" => n >= 1 /\ ~log[n].ok /\ log[n].step # "clone"
      /\ sync.exitCode = 1 <=> sync.pc = "exit1"
      /\ sync.pc = "returned" <=> n >= 1 /\ log[n] = [step |-> "rm", ok |-> TRUE]

-----------------------------------------------------------------------------
(* Specifications *)

InitEntry == file \in NormFiles /\ EntryStart /\ SparkIdle /\ StatsIdle /\ OrderIdle /\ SyncIdle

SpecEntry == InitEntry /\ [][NextEntry]_vars

InitTokens == file \in TokenFiles /\ EntryStart /\ SparkIdle /\ StatsIdle /\ OrderIdle /\ SyncIdle

SpecTokens == InitTokens /\ [][NextEntry]_vars

InitSpark ==
  /\ values \in UNION { [1..n -> 0..MaxVal] : n \in 0..MaxN }
  /\ geom \in Geometries
  /\ svg = NoSvg
  /\ EntryIdle
  /\ StatsIdle
  /\ OrderIdle
  /\ SyncIdle

InitStats ==
  /\ files \in Directories
  /\ entries = NoEntries
  /\ stats = NoStats
  /\ EntryIdle
  /\ SparkIdle
  /\ OrderIdle
  /\ SyncIdle

SpecStats == InitStats /\ [][NextStats]_vars

SpecSpark == InitSpark /\ [][NextSpark]_vars

InitOrder ==
  /\ files \in {shuffleFiles(n) : n \in 0..MaxShuffled}
  /\ entries = NoEntries
  /\ stats = NoStats
  /\ shuffled = NoShuffle
  /\ EntryIdle
  /\ SparkIdle
  /\ SyncIdle

SpecOrder == InitOrder /\ [][NextOrder]_vars

InitSync ==
  /\ sync \in SyncStarts
  /\ EntryIdle
  /\ SparkIdle
  /\ StatsIdle
  /\ OrderIdle

SpecSync == InitSync /\ [][NextSync]_vars

====
